---- MODULE Spec2Model ----
(***************************************************************************)
(* kirho: result / result_t (errors as values) and defer / defer_t (scope  *)
(* guard).  The header exists in four revisions: src/include/kirho/        *)
(* kirho.hpp ("hpp") and the three revisions concatenated in               *)
(* src/unnamed/part_001 ("r1" lines 1-145, "r2" lines 146-371, "r3" lines  *)
(* 372-685).  The model runs one caller function against one revision.     *)
(***************************************************************************)
EXTENDS Integers, Sequences, FiniteSets, TLC

\* ------------------------------------------------------------------ bounds
MaxGuards == 2
MaxDepth == 2

\* ------------------------------------------------------------ input values
Revisions == {"hpp", "r1", "r2", "r3"}

\* values of type T and of type E the caller passes to the factories; they
\* overlap on 16 so that a payload read from the wrong branch is not told
\* apart by its value alone
TValues == {16, 420}
EValues == {16, 666}

\* what the caller's out variable holds before is_success / is_error
OutValues == {0, 16}

\* a printable argument of except: a C string or an int
Str(s) == [kind |-> "str", s |-> s, n |-> 0]
Num(n) == [kind |-> "int", s |-> "", n |-> n]

\* the diagnostic argument lists the caller passes to except
ArgLists ==
    { <<>>,
      <<Str("bozo")>>,
      <<Str("code "), Num(666)>>,
      <<Num(4), Num(-20), Str("")>> }

\* ------------------------------------------------------------------- state
VARIABLES
    rev,        \* the revision of the header the caller is built against
    pc,         \* "start", "body", "unwinding", "done", "terminated"
    m_success,  \* result_t::m_success
    m_union,    \* result_t::m_union: [index |-> 0 (T) or 1 (E), val |-> payload]
    ctor,       \* ghost: the factory call that made the result
    last,       \* ghost: the last call on the result and what it produced
    seen,       \* ghost: the values is_success / is_error have returned so far
    cerr,       \* the text written to std::cerr
    depth,      \* the nesting depth of the block the caller is in
    guards,     \* the live defer_t objects, in declaration order
    declared,   \* the number of defer_t objects constructed so far
    fired,      \* ghost: how often each guard's m_f has been invoked
    log,        \* what the deferred statements have appended, in order
    unwindTo,   \* while unwinding: the depth the exit leaves the caller at
    exitKind,   \* ghost: how the last scope exit began
    earlier     \* ghost: per guard, the guards declared before it in its block

vars == <<rev, pc, m_success, m_union, ctor, last, seen, cerr, depth, guards,
          declared, fired, log, unwindTo, exitKind, earlier>>

resultVars == <<m_success, m_union, ctor>>
guardVars ==
    <<depth, guards, declared, fired, log, unwindTo, exitKind, earlier>>

\* ------------------------------------------------- std::cerr, std::terminate
\* The process as a method body sees it: the text on std::cerr and whether
\* std::terminate has been called.  A statement after std::terminate is never
\* executed.
Process(text, dead) == [cerr |-> text, terminated |-> dead]

Digit(d) ==
    CASE d = 0 -> "0" [] d = 1 -> "1" [] d = 2 -> "2" [] d = 3 -> "3"
      [] d = 4 -> "4" [] d = 5 -> "5" [] d = 6 -> "6" [] d = 7 -> "7"
      [] d = 8 -> "8" [] d = 9 -> "9"

RECURSIVE ToDecimal(_)
ToDecimal(n) ==
    IF n < 0 THEN "-" \o ToDecimal(-n)
    ELSE IF n < 10 THEN Digit(n)
    ELSE ToDecimal(n \div 10) \o Digit(n % 10)

\* std::ostream << a: the characters operator<< inserts for one printable
Formatted(a) == IF a.kind = "str" THEN a.s ELSE ToDecimal(a.n)

\* std::cerr << text
Put(io, text) ==
    IF io.terminated THEN io ELSE [io EXCEPT !.cerr = @ \o text]

\* std::terminate()
std_terminate(io) == [io EXCEPT !.terminated = TRUE]

\* mutation of FoldPut: the pack is written last argument first
RECURSIVE FoldPut_reversed(_, _)
FoldPut_reversed(io, values) ==
    IF values = <<>> THEN io
    ELSE Put(FoldPut_reversed(io, Tail(values)), Formatted(Head(values)))

\* (std::cerr << ... << values): the binary left fold over the pack
RECURSIVE FoldPut(_, _)
FoldPut(io, values) ==
    IF values = <<>> THEN io
    ELSE FoldPut(Put(io, Formatted(Head(values))), Tail(values))

\* ----------------------------------------------------------------- storage
\* std::get<T> (index 0) / std::get<E> (index 1) on m_union; in kirho.hpp the
\* read of the union member value / error.  A read of the alternative that is
\* not held does not yield a payload: it yields BadVariantAccess.
BadVariantAccess == -1

std_get(u, i) == IF u.index = i THEN u.val ELSE BadVariantAccess

\* the private constructor
result_t(p_success, p_union) == [m_success |-> p_success, m_union |-> p_union]

\* mutation of success: the discriminant is set to the error branch
success_as_error(value) == result_t(FALSE, [index |-> 0, val |-> value])

\* the factories
success(value) == result_t(TRUE, [index |-> 0, val |-> value])

error(e) == result_t(FALSE, [index |-> 1, val |-> e])

\* --------------------------------------------------------------- accessors
\* mutation of is_success: value is assigned on either branch
is_success_unguarded(self, value) ==
    [ret |-> self.m_success, out |-> self.m_union.val]

\* is_success(T& value): what it returns and what value holds afterwards
is_success(self, value) ==
    [ret |-> self.m_success,
     out |-> IF self.m_success THEN std_get(self.m_union, 0) ELSE value]

\* mutation of is_error: error is assigned on either branch
is_error_unguarded(self, err) ==
    [ret |-> ~self.m_success, out |-> self.m_union.val]

\* is_error(E& error) of the revision r3
is_error(self, err) ==
    [ret |-> ~self.m_success,
     out |-> IF ~self.m_success THEN std_get(self.m_union, 1) ELSE err]

\* is_error(E& error) of the revisions hpp, r1 and r2: returns m_success
is_error_hpp(self, err) ==
    [ret |-> self.m_success,
     out |-> IF ~self.m_success THEN std_get(self.m_union, 1) ELSE err]

is_error_r1(self, err) ==
    [ret |-> self.m_success,
     out |-> IF ~self.m_success THEN std_get(self.m_union, 1) ELSE err]

is_error_r2(self, err) ==
    [ret |-> self.m_success,
     out |-> IF ~self.m_success THEN std_get(self.m_union, 1) ELSE err]

\* std::optional<T>: present with a value, or absent
Some(v) == [has_value |-> TRUE, value |-> <<v>>]
None == [has_value |-> FALSE, value |-> <<>>]

\* mutation of to_optional: the payload is wrapped whatever the branch
to_optional_any(self) == Some(self.m_union.val)

to_optional(self) ==
    IF self.m_success THEN Some(std_get(self.m_union, 0)) ELSE None

\* the fixed message of unwrap, per revision
UnwrapMessage == "result_t::unwrap called on error value.\n"
UnwrapMessage_hpp == "result::unwrap called on error value.\n"

\* mutation of unwrap: std::terminate is called before the message is written
unwrap_with_silent(self, io, message) ==
    LET io1 == IF ~self.m_success
               THEN Put(std_terminate(io), message)
               ELSE io
    IN  [io |-> io1,
         ret |-> IF io1.terminated THEN <<>>
                 ELSE <<self.m_union.val>>]

\* unwrap(): ret is <<v>> when the return statement is executed, <<>> when it
\* is not
unwrap_with(self, io, message) ==
    LET io1 == IF ~self.m_success
               THEN std_terminate(Put(io, message))
               ELSE io
    IN  [io |-> io1,
         ret |-> IF io1.terminated THEN <<>>
                 ELSE <<std_get(self.m_union, 0)>>]

unwrap(self, io) == unwrap_with(self, io, UnwrapMessage)

unwrap_hpp(self, io) == unwrap_with(self, io, UnwrapMessage_hpp)

\* mutation of except: the test of m_success is inverted
except_inverted(self, values, io) ==
    LET io1 == IF self.m_success
               THEN std_terminate(Put(FoldPut(io, values), "\n"))
               ELSE io
    IN  [io |-> io1,
         ret |-> IF io1.terminated THEN <<>>
                 ELSE <<self.m_union.val>>]

\* except(S... values)
except(self, values, io) ==
    LET io1 == IF ~self.m_success
               THEN std_terminate(Put(FoldPut(io, values), "\n"))
               ELSE io
    IN  [io |-> io1,
         ret |-> IF io1.terminated THEN <<>>
                 ELSE <<std_get(self.m_union, 0)>>]

\* mutation of handle_error: handler is invoked on either branch
handle_error_always(self) == <<self.m_union.val>>

\* handle_error(F handler): the arguments handler is invoked with, in order
handle_error(self) ==
    IF ~self.m_success THEN <<std_get(self.m_union, 1)>> ELSE <<>>

\* ------------------------------------------------------------- scope guard
\* What the deferred statements act on: the log they append to, and the count
\* of invocations per guard.
World(l, f) == [log |-> l, fired |-> f]

\* m_f(): the deferred statement of guard f appends f to the log
Invoke(f, w) ==
    World(Append(w.log, f), [w.fired EXCEPT ![f] = @ + 1])

\* defer_t(F f) noexcept : m_f(f) {}
defer_t(f, w) == [self |-> [m_f |-> f], world |-> w]

\* mutation of ~defer_t: m_f is invoked twice
defer_t_dtor_twice(self, w) == Invoke(self.m_f, Invoke(self.m_f, w))

\* ~defer_t() noexcept { m_f(); }
defer_t_dtor(self, w) == Invoke(self.m_f, w)

\* --------------------------------------------------------------- the caller
NoCall ==
    [op |-> "none", before |-> 0, ret |-> <<>>, out |-> 0, args |-> <<>>,
     handled |-> <<>>, cerr0 |-> "", returned |-> TRUE]

Call(op, before, ret, out, args, handled, cerr0, returned) ==
    [op |-> op, before |-> before, ret |-> ret, out |-> out, args |-> args,
     handled |-> handled, cerr0 |-> cerr0, returned |-> returned]

\* text the process wrote to std::cerr before the caller runs
PriorOutput == {"", "init\n"}

\* the depth of the block the last declared live guard belongs to
TopDepth == IF guards = <<>> THEN 0 ELSE guards[Len(guards)].depth

Self == [m_success |-> m_success, m_union |-> m_union]

Init ==
    /\ rev \in Revisions
    /\ pc = "start"
    /\ m_success = FALSE
    /\ m_union = [index |-> 1, val |-> 0]
    /\ ctor = [kind |-> "none", val |-> 0]
    /\ last = NoCall
    /\ seen = [is_success |-> {}, is_error |-> {}]
    /\ cerr \in PriorOutput
    /\ depth = 1
    /\ guards = <<>>
    /\ declared = 0
    /\ fired = [g \in 1..MaxGuards |-> 0]
    /\ log = <<>>
    /\ unwindTo = 0
    /\ exitKind = "none"
    /\ earlier = [g \in 1..MaxGuards |-> {}]

\* const auto r = result_t<T, E>::success(v);
Success(v) ==
    /\ pc = "start"
    /\ LET r == success(v)
       IN  /\ m_success' = r.m_success
           /\ m_union' = r.m_union
    /\ ctor' = [kind |-> "success", val |-> v]
    /\ pc' = "body"
    /\ UNCHANGED <<rev, last, seen, cerr>>
    /\ UNCHANGED guardVars

\* const auto r = result_t<T, E>::error(e);
Error(e) ==
    /\ pc = "start"
    /\ LET r == error(e)
       IN  /\ m_success' = r.m_success
           /\ m_union' = r.m_union
    /\ ctor' = [kind |-> "error", val |-> e]
    /\ pc' = "body"
    /\ UNCHANGED <<rev, last, seen, cerr>>
    /\ UNCHANGED guardVars

\* r.is_success(out), out holding before
IsSuccess(before) ==
    /\ pc = "body"
    /\ LET c == is_success(Self, before)
       IN  /\ last' = Call("is_success", before, <<c.ret>>, c.out, <<>>, <<>>,
                           cerr, TRUE)
           /\ seen' = [seen EXCEPT !.is_success = @ \cup {c.ret}]
    /\ UNCHANGED <<rev, pc, cerr>>
    /\ UNCHANGED resultVars
    /\ UNCHANGED guardVars

\* r.is_error(out), out holding before
IsError(before) ==
    /\ pc = "body"
    /\ LET c == CASE rev = "hpp" -> is_error_hpp(Self, before)
                  [] rev = "r1" -> is_error_r1(Self, before)
                  [] rev = "r2" -> is_error_r2(Self, before)
                  [] rev = "r3" -> is_error(Self, before)
       IN  /\ last' = Call("is_error", before, <<c.ret>>, c.out, <<>>, <<>>,
                           cerr, TRUE)
           /\ seen' = [seen EXCEPT !.is_error = @ \cup {c.ret}]
    /\ UNCHANGED <<rev, pc, cerr>>
    /\ UNCHANGED resultVars
    /\ UNCHANGED guardVars

\* r.to_optional()
ToOptional ==
    /\ pc = "body"
    /\ last' = Call("to_optional", 0, <<to_optional(Self)>>, 0, <<>>, <<>>,
                    cerr, TRUE)
    /\ UNCHANGED <<rev, pc, seen, cerr>>
    /\ UNCHANGED resultVars
    /\ UNCHANGED guardVars

\* r.handle_error(h); r1 names a member m_union.error that std::variant does
\* not have, so a call does not build there, and hpp has no handle_error
HandleError ==
    /\ pc = "body"
    /\ rev \in {"r2", "r3"}
    /\ last' = Call("handle_error", 0, <<>>, 0, <<>>, handle_error(Self),
                    cerr, TRUE)
    /\ UNCHANGED <<rev, pc, seen, cerr>>
    /\ UNCHANGED resultVars
    /\ UNCHANGED guardVars

\* mutation of Unwrap: the fatal branch unwinds the caller, so that every live
\* guard is destroyed before the process ends
RECURSIVE DestroyAll(_, _)
DestroyAll(gs, w) ==
    IF gs = <<>> THEN w
    ELSE DestroyAll(SubSeq(gs, 1, Len(gs) - 1),
                    defer_t_dtor(gs[Len(gs)], w))

Unwrap_unwinding ==
    /\ pc = "body"
    /\ LET c == IF rev = "hpp"
                THEN unwrap_hpp(Self, Process(cerr, FALSE))
                ELSE unwrap(Self, Process(cerr, FALSE))
           w == IF c.io.terminated
                THEN DestroyAll(guards, World(log, fired))
                ELSE World(log, fired)
       IN  /\ last' = Call("unwrap", 0, c.ret, 0, <<>>, <<>>, cerr,
                           ~c.io.terminated)
           /\ cerr' = c.io.cerr
           /\ pc' = IF c.io.terminated THEN "terminated" ELSE pc
           /\ guards' = IF c.io.terminated THEN <<>> ELSE guards
           /\ log' = w.log
           /\ fired' = w.fired
    /\ UNCHANGED <<rev, seen, depth, declared, unwindTo, exitKind, earlier>>
    /\ UNCHANGED resultVars

\* r.unwrap()
Unwrap ==
    /\ pc = "body"
    /\ LET c == IF rev = "hpp"
                THEN unwrap_hpp(Self, Process(cerr, FALSE))
                ELSE unwrap(Self, Process(cerr, FALSE))
       IN  /\ last' = Call("unwrap", 0, c.ret, 0, <<>>, <<>>, cerr,
                           ~c.io.terminated)
           /\ cerr' = c.io.cerr
           /\ pc' = IF c.io.terminated THEN "terminated" ELSE pc
    /\ UNCHANGED <<rev, seen>>
    /\ UNCHANGED resultVars
    /\ UNCHANGED guardVars

\* r.except(values...)
Except(values) ==
    /\ pc = "body"
    /\ LET c == except(Self, values, Process(cerr, FALSE))
       IN  /\ last' = Call("except", 0, c.ret, 0, values, <<>>, cerr,
                           ~c.io.terminated)
           /\ cerr' = c.io.cerr
           /\ pc' = IF c.io.terminated THEN "terminated" ELSE pc
    /\ UNCHANGED <<rev, seen>>
    /\ UNCHANGED resultVars
    /\ UNCHANGED guardVars

\* defer(name, statement): a const auto local of the current block; hpp has
\* no defer
Defer ==
    /\ pc = "body"
    /\ rev # "hpp"
    /\ declared < MaxGuards
    /\ LET c == defer_t(declared + 1, World(log, fired))
       IN  /\ guards' = Append(guards, [m_f |-> c.self.m_f, depth |-> depth])
           /\ log' = c.world.log
           /\ fired' = c.world.fired
    /\ declared' = declared + 1
    /\ earlier' = [earlier EXCEPT ![declared + 1] =
                       {guards[i].m_f : i \in {j \in 1..Len(guards) :
                                                  guards[j].depth = depth}}]
    /\ UNCHANGED <<rev, pc, last, seen, cerr, depth, unwindTo, exitKind>>
    /\ UNCHANGED resultVars

\* { : the caller opens a nested block
EnterBlock ==
    /\ pc = "body"
    /\ depth < MaxDepth
    /\ depth' = depth + 1
    /\ UNCHANGED <<rev, pc, last, seen, cerr, guards, declared, fired, log,
                   unwindTo, exitKind, earlier>>
    /\ UNCHANGED resultVars

\* the caller leaves the current block: by reaching its end, by return, or by
\* a failure that propagates out of the function
ScopeExit(kind) ==
    /\ pc = "body"
    /\ pc' = "unwinding"
    /\ exitKind' = kind
    /\ unwindTo' = IF kind = "fallthrough" THEN depth - 1 ELSE 0
    /\ UNCHANGED <<rev, last, seen, cerr, depth, guards, declared, fired, log,
                   earlier>>
    /\ UNCHANGED resultVars

\* mutation of Destroy: of the locals being destroyed, the first declared goes
\* first
Destroy_oldest ==
    /\ pc = "unwinding"
    /\ TopDepth > unwindTo
    /\ LET i == CHOOSE k \in 1..Len(guards) :
                    /\ guards[k].depth > unwindTo
                    /\ \A j \in 1..(k - 1) : guards[j].depth <= unwindTo
           w == defer_t_dtor(guards[i], World(log, fired))
       IN  /\ log' = w.log
           /\ fired' = w.fired
           /\ guards' = SubSeq(guards, 1, i - 1)
                            \o SubSeq(guards, i + 1, Len(guards))
    /\ UNCHANGED <<rev, pc, last, seen, cerr, depth, declared, unwindTo,
                   exitKind, earlier>>
    /\ UNCHANGED resultVars

\* the locals of the blocks being left are destroyed, the last declared first
Destroy ==
    /\ pc = "unwinding"
    /\ TopDepth > unwindTo
    /\ LET w == defer_t_dtor(guards[Len(guards)], World(log, fired))
       IN  /\ log' = w.log
           /\ fired' = w.fired
    /\ guards' = SubSeq(guards, 1, Len(guards) - 1)
    /\ UNCHANGED <<rev, pc, last, seen, cerr, depth, declared, unwindTo,
                   exitKind, earlier>>
    /\ UNCHANGED resultVars

\* every local of the blocks being left is destroyed: control continues after
\* the block, or the function is left
Exited ==
    /\ pc = "unwinding"
    /\ TopDepth <= unwindTo
    /\ depth' = unwindTo
    /\ pc' = IF unwindTo = 0 THEN "done" ELSE "body"
    /\ UNCHANGED <<rev, last, seen, cerr, guards, declared, fired, log,
                   unwindTo, exitKind, earlier>>
    /\ UNCHANGED resultVars

Next ==
    \/ \E v \in TValues : Success(v)
    \/ \E e \in EValues : Error(e)
    \/ \E before \in OutValues : IsSuccess(before)
    \/ \E before \in OutValues : IsError(before)
    \/ ToOptional
    \/ HandleError
    \/ Unwrap
    \/ \E values \in ArgLists : Except(values)
    \/ Defer
    \/ EnterBlock
    \/ \E kind \in {"fallthrough", "return", "throw"} : ScopeExit(kind)
    \/ Destroy
    \/ Exited

Spec == Init /\ [][Next]_vars

\* ======================================================================
\* Properties
\* ======================================================================

\* C1: is_error(out) returns true exactly when the result was constructed by
\* error(e), and false exactly when it was constructed by success(v).
C1_IsErrorReportsBranch ==
    last.op = "is_error" => (last.ret = <<TRUE>> <=> ctor.kind = "error")

\* C2: over any sequence of is_success and is_error calls on one result,
\* exactly one of the two reports true: whatever is_success has returned
\* differs from whatever is_error has returned.
C2_ExactlyOneReportsTrue ==
    \A a \in seen.is_success : \A b \in seen.is_error : a # b

\* the message unwrap of the revision in use prints
ExpectedUnwrapMessage ==
    IF rev = "hpp" THEN "result::unwrap called on error value.\n"
    ELSE "result_t::unwrap called on error value.\n"

\* C3: unwrap() on a result constructed by error(e) has appended the fixed,
\* non-empty message to std::cerr, the process is terminated, no value was
\* returned, and no step is ever taken from a terminated process.
C3_UnwrapOnErrorIsFatal ==
    /\ [](last.op = "unwrap" /\ ctor.kind = "error" =>
            /\ cerr = last.cerr0 \o ExpectedUnwrapMessage
            /\ Len(ExpectedUnwrapMessage) > 0
            /\ pc = "terminated"
            /\ ~last.returned
            /\ last.ret = <<>>)
    /\ [][pc # "terminated"]_vars

C3_Witness ==
    /\ last.op = "unwrap"
    /\ ctor = [kind |-> "error", val |-> 666]
    /\ pc = "terminated"
    /\ last.cerr0 = "init\n"
    /\ declared > 0

\* the arguments of except as the text operator<< makes of each, joined from
\* the right with nothing between them
RECURSIVE Joined(_)
Joined(values) ==
    IF values = <<>> THEN ""
    ELSE (IF Head(values).kind = "int"
          THEN ToDecimal(Head(values).n)
          ELSE Head(values).s) \o Joined(Tail(values))

\* C4: except(d1, ..., dn) on a result constructed by error(e) has appended
\* d1..dn in argument order with nothing between them and then one newline to
\* std::cerr, the process is terminated and no value was returned;
\* error(666).except("bozo") appends exactly "bozo\n".
C4_ExceptOnErrorIsFatal ==
    /\ [](last.op = "except" /\ ctor.kind = "error" =>
            /\ cerr = (last.cerr0 \o Joined(last.args)) \o "\n"
            /\ last.args = <<Str("bozo")>> => cerr = last.cerr0 \o "bozo\n"
            /\ last.args = <<Str("code "), Num(666)>> =>
                   cerr = last.cerr0 \o "code 666\n"
            /\ last.args = <<>> => cerr = last.cerr0 \o "\n"
            /\ pc = "terminated"
            /\ ~last.returned
            /\ last.ret = <<>>)
    /\ [][pc # "terminated"]_vars

C4_Witness ==
    /\ last.op = "except"
    /\ ctor = [kind |-> "error", val |-> 666]
    /\ last.args = <<Str("code "), Num(666)>>
    /\ cerr = "init\ncode 666\n"
    /\ pc = "terminated"

\* C5: unwrap() and except(args...) on a result constructed by success(v)
\* return v, append nothing to std::cerr and do not terminate the process.
C5_SuccessIsReturned ==
    last.op \in {"unwrap", "except"} /\ ctor.kind = "success" =>
        /\ last.ret = <<ctor.val>>
        /\ last.returned
        /\ cerr = last.cerr0
        /\ pc # "terminated"

C5_Witness ==
    /\ last.op = "except"
    /\ last.args = <<Str("bozo")>>
    /\ ctor = [kind |-> "success", val |-> 420]
    /\ last.ret = <<420>>
    /\ pc = "body"

\* C6: handle_error(h) on a result constructed by error(e) invokes h exactly
\* once, with e; on a result constructed by success(v) it never invokes h; in
\* both cases it returns and the process is not terminated.
C6_HandlerRunsOnceOnError ==
    last.op = "handle_error" =>
        /\ ctor.kind = "error" => last.handled = <<ctor.val>>
        /\ ctor.kind = "success" => last.handled = <<>>
        /\ last.returned
        /\ pc # "terminated"
        /\ cerr = last.cerr0

C6_Witness ==
    /\ last.op = "handle_error"
    /\ ctor = [kind |-> "error", val |-> 16]
    /\ last.handled = <<16>>
    /\ pc = "body"

\* C7: is_success(out) on a result constructed by success(v) returns true and
\* leaves out = v; on a result constructed by error(e) it returns false and
\* leaves out holding the value it had before the call.
C7_IsSuccessOut ==
    last.op = "is_success" =>
        /\ ctor.kind = "success" => last.ret = <<TRUE>> /\ last.out = ctor.val
        /\ ctor.kind = "error" => last.ret = <<FALSE>> /\ last.out = last.before

C7_Witness ==
    /\ last.op = "is_success"
    /\ ctor = [kind |-> "error", val |-> 666]
    /\ last.before = 16
    /\ last.out = 16

\* C8: is_error(out) on a result constructed by error(e) leaves out = e; on a
\* result constructed by success(v) it leaves out holding the value it had
\* before the call.
C8_IsErrorOut ==
    last.op = "is_error" =>
        /\ ctor.kind = "error" => last.out = ctor.val
        /\ ctor.kind = "success" => last.out = last.before

C8_Witness ==
    /\ last.op = "is_error"
    /\ ctor = [kind |-> "success", val |-> 420]
    /\ last.before = 16
    /\ last.out = 16
    /\ rev = "r3"

\* C9: to_optional() on a result constructed by success(v) returns a present
\* optional holding v; on a result constructed by error(e) it returns an
\* absent optional, which holds nothing.
C9_ToOptional ==
    last.op = "to_optional" =>
        /\ ctor.kind = "success" =>
               /\ last.ret[1].has_value
               /\ last.ret[1].value = <<ctor.val>>
        /\ ctor.kind = "error" =>
               /\ ~last.ret[1].has_value
               /\ last.ret[1].value = <<>>

C9_Witness ==
    /\ last.op = "to_optional"
    /\ ctor = [kind |-> "error", val |-> 16]
    /\ ~last.ret[1].has_value

\* the guards constructed so far, and those of them not yet destroyed
Constructed == 1..declared
Live == {guards[i].m_f : i \in 1..Len(guards)}

\* the action of a guard has run exactly when the guard has been destroyed,
\* and then once
FiredOnlyByDestruction ==
    /\ \A g \in Constructed : fired[g] = (IF g \in Live THEN 0 ELSE 1)
    /\ \A g \in (1..MaxGuards) \ Constructed : fired[g] = 0

\* C10 as stated: every guard constructed has its action invoked exactly once
\* in total, by its destruction and by nothing else; once the process has
\* ended, no guard's action has been skipped.
C10_ExactlyOnceInTotal ==
    /\ FiredOnlyByDestruction
    /\ pc \in {"done", "terminated"} => \A g \in Constructed : fired[g] = 1

\* C10, amended: the action of a guard is invoked only by the guard's
\* destruction and at most once; a guard is destroyed when the block that
\* declared it is left by fall-through, return or a propagating failure, so
\* that its action has then run exactly once.  std::terminate is not such an
\* exit.
C10_ExactlyOncePerScopeExit ==
    /\ [](/\ FiredOnlyByDestruction
          /\ pc = "done" => \A g \in Constructed : fired[g] = 1
          /\ pc = "body" =>
                 \A i \in 1..Len(guards) : guards[i].depth <= depth)
    /\ [][\A g \in 1..MaxGuards :
              fired'[g] # fired[g] =>
                  /\ pc = "unwinding"
                  /\ guards # <<>>
                  /\ g = guards[Len(guards)].m_f
                  /\ guards[Len(guards)].depth > unwindTo
                  /\ guards' = SubSeq(guards, 1, Len(guards) - 1)
                  /\ fired'[g] = fired[g] + 1]_vars

C10_Witness ==
    /\ pc = "done"
    /\ exitKind = "throw"
    /\ declared = 2
    /\ fired[1] = 1
    /\ fired[2] = 1

\* where in the log the action of a guard that has run stands
Ran(g) == \E i \in 1..Len(log) : log[i] = g
Pos(g) == CHOOSE i \in 1..Len(log) : log[i] = g

\* C11: of two guards G1 then G2 declared in that order in the same block,
\* G2's action has run, and is complete, before G1's action starts: the guards
\* of a block fire in reverse declaration order, one at a time, so that guard
\* 1 then guard 2 declared in one block leave the log <<2, 1>>.
C11_ReverseDeclarationOrder ==
    /\ [](/\ \A g2 \in Constructed : \A g1 \in earlier[g2] :
                 /\ g1 < g2
                 /\ Ran(g1) => Ran(g2) /\ Pos(g2) < Pos(g1)
          /\ (declared = 2 /\ earlier[2] = {1} /\ Live = {}) => log = <<2, 1>>)
    /\ [][log' # log =>
              /\ guards # <<>>
              /\ log' = Append(log, guards[Len(guards)].m_f)
              /\ \A g \in Live : g <= guards[Len(guards)].m_f
              /\ guards' = SubSeq(guards, 1, Len(guards) - 1)]_vars

C11_Witness ==
    /\ declared = 2
    /\ earlier[2] = {1}
    /\ log = <<2, 1>>
    /\ exitKind = "fallthrough"
    /\ pc = "body"

\* C12: once constructed, the discriminant agrees with the alternative that
\* m_union holds, both are the branch and the payload given to the factory,
\* and no call of is_success, is_error, to_optional, handle_error, unwrap or
\* except changes either.
C12_DiscriminantAgreesWithPayload ==
    /\ [](pc # "start" =>
            /\ m_success <=> m_union.index = 0
            /\ ~m_success <=> m_union.index = 1
            /\ ctor.kind = "success" =>
                   m_success /\ m_union = [index |-> 0, val |-> ctor.val]
            /\ ctor.kind = "error" =>
                   ~m_success /\ m_union = [index |-> 1, val |-> ctor.val]
            /\ ctor.kind \in {"success", "error"})
    /\ [][pc # "start" =>
              /\ m_success' = m_success
              /\ m_union' = m_union
              /\ ctor' = ctor]_vars

C12_Witness ==
    /\ ctor = [kind |-> "success", val |-> 16]
    /\ m_success
    /\ m_union = [index |-> 0, val |-> 16]
    /\ seen = [is_success |-> {TRUE}, is_error |-> {FALSE}]
    /\ last.op = "except"
    /\ last.ret = <<16>>

\* C13: when unwrap() or except() on an error result terminates the process,
\* the guards live at that point are not destroyed: they stay live, their
\* actions have not run, nothing is added to the log, and nothing runs them
\* afterwards.
C13_TerminationSkipsGuards ==
    /\ [](pc = "terminated" =>
            /\ last.op \in {"unwrap", "except"}
            /\ ctor.kind = "error"
            /\ \A i \in 1..Len(guards) :
                   fired[guards[i].m_f] = 0 /\ ~Ran(guards[i].m_f))
    /\ [][pc' = "terminated" =>
              guards' = guards /\ fired' = fired /\ log' = log]_vars
    /\ [][pc = "terminated" => fired' = fired /\ guards' = guards]_vars

C13_Witness ==
    /\ pc = "terminated"
    /\ last.op = "unwrap"
    /\ Len(guards) = 2
    /\ guards[1].depth = 1
    /\ guards[2].depth = 2
    /\ fired[1] = 0
    /\ fired[2] = 0
    /\ log = <<>>

====
